---- MODULE Spec2Model ----
(***************************************************************************)
(* Nelder-Mead simplex optimizer (otimizar_nelder_mead), simplex           *)
(* construction (inicializar_simplex) and the multi-start driver           *)
(* (executar_multiplas_otimizacoes) of src/nelder_mead_optimization.py.    *)
(*                                                                         *)
(* Numbers.  Every coordinate is a float64 array element.  The inputs are  *)
(* dyadic rationals, and with dimension 1 or 2 every operation of the      *)
(* algorithm (mean over N points, the coefficients 1.0, 2.0, 0.5) keeps    *)
(* them dyadic with at most two more fractional bits per iteration, so     *)
(* IEEE double arithmetic is exact on them.  A coordinate x is held as the *)
(* integer x * D and an objective value v as the integer v * D * D, where  *)
(* D = 4^MaxIter.                                                          *)
(***************************************************************************)
EXTENDS Integers, Sequences, FiniteSets, TLC

\* ------------------------------------------------------------------ bounds
\* Largest max_iter a run is called with.
MaxIter == 3
\* Largest num_execucoes the driver is called with.
MaxExec == 2

RECURSIVE Pow4(_)
Pow4(k) == IF k = 0 THEN 1 ELSE 4 * Pow4(k - 1)

\* Fixed-point denominator of a coordinate; D * D is that of a value.
D == Pow4(MaxIter)

\* float('inf') of line 75: above every finite value the model produces.
Inf == 2147483647

\* None (line 76) and an unbound local (valores before the first iteration).
None == << >>
Unbound == << >>

\* ------------------------------------------------------------------ inputs
\* Problem dimensions N = len(p0).
Dims == {1, 2}
\* Coordinates of a start point handed to a direct call.
Coords == {-D, 0, D, 2 * D}
\* Coordinates np.random.uniform(min_valor, max_valor) is sampled at.
MinValor == -D
MaxValor == D
Amostras == {MinValor, (MinValor + MaxValor) \div 2}
\* Step sizes (passo): 0.0, 1.0, 2.0.
Passos == {0, D, 2 * D}
\* Tolerances (tolerancia): 0.0, 1/D^2, 1.0.
Tolerancias == {0, 1, D * D}
\* Step sizes and tolerances the driver is called with.
PassosMulti == {D}
ToleranciasMulti == {1, D * D}
\* Objective functions f handed to the optimizer.
Objetivos == {"quadratica", "linear", "constante", "pente"}

Pontos(n) == [1..n -> Coords]
PontosAmostra(n) == [1..n -> Amostras]

\* ------------------------------------------------------- objective function
RECURSIVE SomaQuad(_, _)
\* sum over i <= k of i * x_i^2
SomaQuad(x, k) == IF k = 0 THEN 0 ELSE k * x[k] * x[k] + SomaQuad(x, k - 1)

RECURSIVE Soma(_, _)
Soma(x, k) == IF k = 0 THEN 0 ELSE x[k] + Soma(x, k - 1)

\* f(x), as the integer f(x) * D * D.
\*   quadratica: lambda x: sum((i+1) * x[i]**2 for i in range(len(x)))
\*   linear:     lambda x: sum(x)
\*   constante:  lambda x: 0.0
\*   pente:      lambda x: quadratica(x) + (4.0 if x[0] != math.floor(x[0]) else 0.0)
F(f, x) ==
    CASE f = "quadratica" -> SomaQuad(x, Len(x))
      [] f = "linear" -> D * Soma(x, Len(x))
      [] f = "constante" -> 0
      [] f = "pente" -> SomaQuad(x, Len(x))
                          + (IF x[1] % D # 0 THEN 4 * D * D ELSE 0)

\* ---------------------------------------------------------- vector algebra
VAdd(a, b) == [i \in 1..Len(a) |-> a[i] + b[i]]
VSub(a, b) == [i \in 1..Len(a) |-> a[i] - b[i]]
VMul(k, a) == [i \in 1..Len(a) |-> k * a[i]]
\* 0.5 * a
VHalf(a) == [i \in 1..Len(a) |-> a[i] \div 2]

RECURSIVE SomaPontos(_, _)
SomaPontos(s, k) == IF k = 1 THEN s[1] ELSE VAdd(s[k], SomaPontos(s, k - 1))

\* np.mean(simplex[:-1], axis=0)
Centroide(s) ==
    LET n == Len(s) - 1
        t == SomaPontos(s, n)
    IN  [i \in 1..Len(t) |-> t[i] \div n]

\* centroide + 1.0 * (centroide - simplex[-1])
Refletido(c, pior) == VAdd(c, VMul(1, VSub(c, pior)))
\* centroide + 2.0 * (refletido - centroide)
Expandido(c, r) == VAdd(c, VMul(2, VSub(r, c)))
\* centroide + 0.5 * (simplex[-1] - centroide)
Contraido(c, pior) == VAdd(c, VHalf(VSub(pior, c)))

\* ------------------------------------------------------------------- state
VARIABLES
    modo,           \* "direto": otimizar_nelder_mead called by itself; "multi": by the driver
    f,              \* objective function
    passo,          \* step size
    tolerancia,     \* convergence tolerance
    max_iter,       \* iteration budget
    p0,             \* the caller's start point (the array handed to the call)
    simplex,        \* the optimizer's simplex array
    valores,        \* objective values of the sorted simplex; Unbound before iteration 0
    historico,      \* list of recorded simplices of the current run
    iteracao,       \* index of the next loop iteration (range(max_iter))
    candidatos,     \* per iteration of the current run, the candidate points f was called on
    pc,             \* position of the optimizer: "chamada", "laco", "fim", "ocioso"
    ret,            \* what the optimizer call produced
    num_execucoes,  \* number of runs of the driver
    exec,           \* runs of the driver completed so far
    melhor_valor,   \* driver's running best value
    melhor_ponto,   \* driver's running best point
    execucoes,      \* results of the runs completed so far, in order
    dpc,            \* position of the driver: "fora", "laco", "fim"
    dret            \* what the driver call produced

vars == << modo, f, passo, tolerancia, max_iter, p0, simplex, valores, historico,
           iteracao, candidatos, pc, ret, num_execucoes, exec, melhor_valor,
           melhor_ponto, execucoes, dpc, dret >>

entradas == << modo, f, passo, tolerancia, max_iter, num_execucoes >>
varsMulti == << exec, melhor_valor, melhor_ponto, execucoes, dpc, dret >>

SemRetorno == [kind |-> "none", ponto |-> None, valor |-> 0, iters |-> 0,
               historico |-> << >>]
SemRetornoMulti == [kind |-> "none", ponto |-> None, valor |-> 0]

\* ------------------------------------------------------ inicializar_simplex
\* A construction that perturbs p0 itself instead of copies of it.
InicializarSemCopia(q, h) ==
    LET m == [j \in 1..Len(q) |-> q[j] + h]
    IN  [simplex |-> [k \in 1..Len(q) + 1 |-> m], p0 |-> m]

\* The array returned, and the caller's p0 after the call.
InicializarSimplex(q, h) ==
    [simplex |-> [k \in 1..Len(q) + 1 |->
                    IF k = 1 THEN q
                    ELSE [j \in 1..Len(q) |->
                            IF j = k - 1 THEN q[j] + h ELSE q[j]]],
     p0 |-> q]

\* -------------------------------------------------- one loop iteration
\* [f(x) for x in simplex]
Avaliar(s) == [i \in 1..Len(s) |-> F(f, s[i])]

Perms(n) == {o \in [1..n -> 1..n] : \A i, j \in 1..n : i # j => o[i] # o[j]}

\* np.argsort(valores): any order that sorts the values ascending.  The
\* default kind is not stable, so equal values may come out in any order.
ArgSort(v) ==
    {o \in Perms(Len(v)) : \A i \in 1..Len(v) - 1 : v[o[i]] <= v[o[i + 1]]}

\* x[ordem]
Reordenar(x, o) == [i \in 1..Len(x) |-> x[o[i]]]

\* valores[-1] - valores[0] < tolerancia
Convergiu(v, tol) == v[Len(v)] - v[1] < tol

\* A replacement that writes index 0 instead of index -1.
SubstituirMelhor(s, p) == [s EXCEPT ![1] = p]

\* simplex[-1] = p
SubstituirPior(s, p) == [s EXCEPT ![Len(s)] = p]

\* A reflection test against valores[-1] instead of valores[-2].
UltimoValor(v) == v[Len(v)]

\* valores[-2]
SegundoPior(v) == v[Len(v) - 1]

\* for i in range(1, n+1): simplex[i] = simplex[0] + 0.5 * (simplex[i] - simplex[0])
Encolhido(s) ==
    [i \in 1..Len(s) |->
        IF i = 1 THEN s[1] ELSE VAdd(s[1], VHalf(VSub(s[i], s[1])))]

\* A history that keeps the simplex array itself, not a copy of it.
SemCopia(ordenado, final) == final

\* historico.append(simplex.copy()): the record keeps the sorted simplex
\* whatever the rest of the iteration writes into the array.
Copia(ordenado, final) == ordenado

\* Lines 48-65 on the sorted simplex s with values v: the branch taken, the
\* simplex after it, and the candidate points f was called on.
Atualizacao(s, v) ==
    LET c == Centroide(s)
        pior == s[Len(s)]
        r == Refletido(c, pior)
        fr == F(f, r)
    IN  IF fr < v[1]
        THEN LET e == Expandido(c, r)
                 fe == F(f, e)
             IN  [ramo |-> "expansao",
                  simplex |-> SubstituirPior(s, IF fe < fr THEN e ELSE r),
                  avaliados |-> << r, e >>]
        ELSE IF fr < SegundoPior(v)
        THEN [ramo |-> "reflexao",
              simplex |-> SubstituirPior(s, r),
              avaliados |-> << r >>]
        ELSE LET k == Contraido(c, pior)
                 fk == F(f, k)
             IN  IF fk < v[Len(v)]
                 THEN [ramo |-> "contracao",
                       simplex |-> SubstituirPior(s, k),
                       avaliados |-> << r, k >>]
                 ELSE [ramo |-> "encolhimento",
                       simplex |-> Encolhido(s),
                       avaliados |-> << r, k >>]

\* One pass through the loop body (lines 37-65) with argsort returning o,
\* ending in the given branch.
Iterar(ramo, o) ==
    LET s == Reordenar(simplex, o)
        v == Reordenar(Avaliar(simplex), o)
    IN  /\ IF Convergiu(v, tolerancia)
           THEN /\ ramo = "convergiu"
                /\ simplex' = s
                /\ valores' = v
                /\ historico' = Append(historico, Copia(s, s))
                /\ candidatos' = Append(candidatos, << >>)
                /\ ret' = [kind |-> "return", ponto |-> s[1], valor |-> v[1],
                           iters |-> iteracao, historico |-> historico']
                /\ pc' = "fim"
                /\ iteracao' = iteracao
           ELSE LET a == Atualizacao(s, v)
                IN  /\ ramo = a.ramo
                    /\ simplex' = a.simplex
                    /\ valores' = v
                    /\ historico' = Append(historico, Copia(s, a.simplex))
                    /\ candidatos' = Append(candidatos, a.avaliados)
                    /\ iteracao' = iteracao + 1
                    /\ UNCHANGED << ret, pc >>
        /\ UNCHANGED << entradas, p0, varsMulti >>

\* Line 36: the loop has an iteration left.
NoLaco == pc = "laco" /\ iteracao < max_iter

\* Lines 37-46: the spread is below the tolerance; return.
Convergir ==
    /\ NoLaco
    /\ \E o \in ArgSort(Avaliar(simplex)) : Iterar("convergiu", o)

\* Lines 37-55: the reflected point beats the best.
Expandir ==
    /\ NoLaco
    /\ \E o \in ArgSort(Avaliar(simplex)) : Iterar("expansao", o)

\* Lines 37-57: the reflected point beats the second worst.
Refletir ==
    /\ NoLaco
    /\ \E o \in ArgSort(Avaliar(simplex)) : Iterar("reflexao", o)

\* Lines 37-62: the contracted point beats the worst.
Contrair ==
    /\ NoLaco
    /\ \E o \in ArgSort(Avaliar(simplex)) : Iterar("contracao", o)

\* Lines 37-65: no candidate is accepted; shrink towards the best.
Encolher ==
    /\ NoLaco
    /\ \E o \in ArgSort(Avaliar(simplex)) : Iterar("encolhimento", o)

\* Lines 32-34 of a direct call: n, the simplex, the empty history.
Chamar ==
    /\ modo = "direto"
    /\ pc = "chamada"
    /\ LET r == InicializarSimplex(p0, passo)
       IN  /\ simplex' = r.simplex
           /\ p0' = r.p0
    /\ historico' = << >>
    /\ candidatos' = << >>
    /\ valores' = Unbound
    /\ iteracao' = 0
    /\ pc' = "laco"
    /\ UNCHANGED << entradas, ret, varsMulti >>

\* Lines 67-69: range(max_iter) is used up.  The return expression reads
\* valores, which no iteration has bound when max_iter = 0: Python raises
\* UnboundLocalError.
Esgotar ==
    /\ pc = "laco"
    /\ iteracao = max_iter
    /\ ret' = IF valores = Unbound
              THEN [SemRetorno EXCEPT !.kind = "UnboundLocalError"]
              ELSE [kind |-> "return", ponto |-> simplex[1], valor |-> valores[1],
                    iters |-> max_iter, historico |-> historico]
    /\ pc' = "fim"
    /\ UNCHANGED << entradas, p0, simplex, valores, historico, iteracao,
                    candidatos, varsMulti >>

\* ------------------------------------------- executar_multiplas_otimizacoes
\* A comparison that also replaces the best on a tie.
MelhoraOuEmpata(valor, melhor) == valor <= melhor

\* valor < melhor_valor
Melhora(valor, melhor) == valor < melhor

\* Lines 78-79: sample p0 and enter otimizar_nelder_mead (lines 32-34).
Amostrar ==
    /\ modo = "multi"
    /\ dpc = "laco"
    /\ pc = "ocioso"
    /\ exec < num_execucoes
    /\ \E q \in PontosAmostra(Len(p0)) :
         LET r == InicializarSimplex(q, passo)
         IN  /\ simplex' = r.simplex
             /\ p0' = r.p0
    /\ historico' = << >>
    /\ candidatos' = << >>
    /\ valores' = Unbound
    /\ iteracao' = 0
    /\ pc' = "laco"
    /\ UNCHANGED << entradas, ret, varsMulti >>

\* Lines 79-83: the run returned; keep it if it improves on the best.  An
\* exception of the run is not caught and ends the driver.  The locals of
\* the finished call are gone; only ponto and valor are kept.
Recolher ==
    /\ modo = "multi"
    /\ dpc = "laco"
    /\ pc = "fim"
    /\ pc' = "ocioso"
    /\ IF ret.kind = "return"
       THEN /\ execucoes' = Append(execucoes, [ponto |-> ret.ponto, valor |-> ret.valor])
            /\ exec' = exec + 1
            /\ IF Melhora(ret.valor, melhor_valor)
               THEN /\ melhor_valor' = ret.valor
                    /\ melhor_ponto' = ret.ponto
               ELSE UNCHANGED << melhor_valor, melhor_ponto >>
            /\ UNCHANGED << dpc, dret >>
       ELSE /\ dpc' = "fim"
            /\ dret' = [SemRetornoMulti EXCEPT !.kind = ret.kind]
            /\ UNCHANGED << exec, melhor_valor, melhor_ponto, execucoes >>
    /\ simplex' = << >>
    /\ valores' = Unbound
    /\ historico' = << >>
    /\ candidatos' = << >>
    /\ iteracao' = 0
    /\ ret' = SemRetorno
    /\ UNCHANGED << entradas, p0 >>

\* Line 84.
Retornar ==
    /\ modo = "multi"
    /\ dpc = "laco"
    /\ pc = "ocioso"
    /\ exec = num_execucoes
    /\ dret' = [kind |-> "return", ponto |-> melhor_ponto, valor |-> melhor_valor]
    /\ dpc' = "fim"
    /\ UNCHANGED << entradas, p0, simplex, valores, historico, iteracao,
                    candidatos, pc, ret, exec, melhor_valor, melhor_ponto,
                    execucoes >>

\* ------------------------------------------------------------ specification
\* A call of otimizar_nelder_mead about to start, or a call of
\* executar_multiplas_otimizacoes after lines 75-76.
Init ==
    /\ modo \in {"direto", "multi"}
    /\ f \in Objetivos
    /\ passo \in IF modo = "direto" THEN Passos ELSE PassosMulti
    /\ tolerancia \in IF modo = "direto" THEN Tolerancias ELSE ToleranciasMulti
    /\ max_iter \in 0..MaxIter
    /\ \E n \in Dims :
         IF modo = "direto" THEN p0 \in Pontos(n) ELSE p0 = [j \in 1..n |-> 0]
    /\ simplex = << >>
    /\ valores = Unbound
    /\ historico = << >>
    /\ iteracao = 0
    /\ candidatos = << >>
    /\ ret = SemRetorno
    /\ pc = IF modo = "direto" THEN "chamada" ELSE "ocioso"
    /\ dpc = IF modo = "direto" THEN "fora" ELSE "laco"
    /\ num_execucoes \in IF modo = "direto" THEN {0} ELSE 0..MaxExec
    /\ exec = 0
    /\ melhor_valor = Inf
    /\ melhor_ponto = None
    /\ execucoes = << >>
    /\ dret = SemRetornoMulti

Next ==
    \/ Chamar
    \/ Convergir
    \/ Expandir
    \/ Refletir
    \/ Contrair
    \/ Encolher
    \/ Esgotar
    \/ Amostrar
    \/ Recolher
    \/ Retornar

Spec == Init /\ [][Next]_vars

\* ------------------------------------------------------------------ claims
\* The run ended by using up range(max_iter), not by the convergence return.
Esgotado == pc = "fim" /\ ret.kind = "return" /\ ret.iters = max_iter

\* worst value - best value of a recorded (sorted) simplex
Amplitude(s) == F(f, s[Len(s)]) - F(f, s[1])

\* C1: for every run with max_iter >= 1 that returns, CONVERGED or
\* EXHAUSTED, the length of the returned history is the returned iteration
\* count + 1.
C1_HistoricoContagemMaisUm ==
    (pc = "fim" /\ max_iter >= 1 /\ ret.kind = "return")
        => Len(ret.historico) = ret.iters + 1

\* C2: a call with max_iter = 0 returns normally: the best point and value
\* of the initial simplex, iteration count 0, a history of length 1, and no
\* reflected, expanded or contracted point evaluated.
C2_MaxIterZeroRetorna ==
    (pc = "fim" /\ max_iter = 0)
        => LET ini == InicializarSimplex(p0, passo).simplex
           IN  /\ ret.kind = "return"
               /\ ret.iters = 0
               /\ Len(ret.historico) = 1
               /\ \E i \in 1..Len(ini) : ret.ponto = ini[i]
               /\ \A i \in 1..Len(ini) : ret.valor <= F(f, ini[i])
               /\ ret.valor = F(f, ret.ponto)
               /\ \A k \in 1..Len(candidatos) : candidatos[k] = << >>

\* C3: when a run with max_iter >= 1 ends EXHAUSTED, the returned point is
\* the best point of the simplex as it stands at termination (after the
\* last replacement or shrink), and the returned value is its value.
C3_EsgotadoRetornaMelhorAtual ==
    (Esgotado /\ max_iter >= 1)
        => /\ \E i \in 1..Len(simplex) : ret.ponto = simplex[i]
           /\ \A i \in 1..Len(simplex) : F(f, ret.ponto) <= F(f, simplex[i])
           /\ ret.valor = F(f, ret.ponto)

\* C4: the objective value of the index-0 point of history record k+1 is
\* <= that of the index-0 point of record k, for every pair of consecutive
\* records, whichever update was applied in iteration k.
C4_MelhorNaoAumenta ==
    \A k \in 1..Len(historico) - 1 :
        F(f, historico[k + 1][1]) <= F(f, historico[k][1])

\* A run in dimension 2 with three records whose best value fell strictly
\* from the second record to the third.
C4_Testemunha ==
    /\ Len(historico) >= 3
    /\ Len(p0) = 2
    /\ F(f, historico[2][1]) <= F(f, historico[1][1])
    /\ F(f, historico[3][1]) < F(f, historico[2][1])

\* C5: with K >= 1 runs the driver's running best is +infinity before the
\* first run and afterwards the value and point of the earliest run whose
\* value is the minimum of the runs so far (a tie keeps the earlier run);
\* the driver returns that point and value after K runs.
C5_MelhorGlobal ==
    modo = "multi" =>
        /\ Len(execucoes) = exec
        /\ exec = 0 => melhor_valor = Inf /\ melhor_ponto = None
        /\ exec >= 1 =>
             \E j \in 1..exec :
                /\ melhor_valor = execucoes[j].valor
                /\ melhor_ponto = execucoes[j].ponto
                /\ \A i \in 1..exec : melhor_valor <= execucoes[i].valor
                /\ \A i \in 1..j - 1 : melhor_valor < execucoes[i].valor
        /\ (dpc = "fim" /\ dret.kind = "return") =>
                /\ exec = num_execucoes
                /\ dret.valor = melhor_valor
                /\ dret.ponto = melhor_ponto

\* The driver returned after two runs that tied on the value at different
\* points, and kept the point of the first.
C5_Testemunha ==
    /\ dpc = "fim"
    /\ dret.kind = "return"
    /\ exec >= 2
    /\ execucoes[1].valor = execucoes[2].valor
    /\ execucoes[1].ponto # execucoes[2].ponto
    /\ dret.ponto = execucoes[1].ponto

\* C6: every run ends by returning; it returns k < max_iter exactly when
\* iteration k is the first whose sorted simplex has spread < tolerance,
\* and then no candidate is evaluated in iteration k; otherwise it returns
\* max_iter after exactly max_iter iterations.
C6_ContagemIdentificaEstado ==
    pc = "fim" =>
        /\ ret.kind = "return"
        /\ \/ /\ ret.iters < max_iter
              /\ Len(historico) = ret.iters + 1
              /\ Len(candidatos) = ret.iters + 1
              /\ Amplitude(historico[ret.iters + 1]) < tolerancia
              /\ \A k \in 1..ret.iters : Amplitude(historico[k]) >= tolerancia
              /\ candidatos[ret.iters + 1] = << >>
           \/ /\ ret.iters = max_iter
              /\ Len(historico) = max_iter
              /\ Len(candidatos) = max_iter
              /\ \A k \in 1..max_iter :
                    /\ Amplitude(historico[k]) >= tolerancia
                    /\ candidatos[k] # << >>

\* C7: the simplex a call starts from has N+1 points, point 0 equal to p0
\* and point i equal to p0 with passo added to coordinate i only, and the
\* construction leaves the caller's p0 as it was.
C7_SimplexInicial ==
    [][(pc # "laco" /\ pc' = "laco") =>
          /\ modo = "direto" => p0' = p0
          /\ Len(simplex') = Len(p0') + 1
          /\ simplex'[1] = p0'
          /\ \A i \in 1..Len(p0') :
                /\ Len(simplex'[i + 1]) = Len(p0')
                /\ \A j \in 1..Len(p0') :
                      simplex'[i + 1][j] = p0'[j] + (IF j = i THEN passo ELSE 0)]_vars

\* A direct call in dimension 2 with a nonzero step has just built its
\* simplex.
C7_Testemunha ==
    /\ modo = "direto"
    /\ pc = "laco"
    /\ iteracao = 0
    /\ Len(p0) = 2
    /\ passo # 0
    /\ simplex = << p0, << p0[1] + passo, p0[2] >>, << p0[1], p0[2] + passo >> >>

\* C8: with passo = 0 no run holds a degenerate simplex whose points all
\* equal p0, and no run reports CONVERGED at p0.
C8_PassoZeroRejeitado ==
    passo = 0 =>
        /\ ~(simplex # << >> /\ \A i \in 1..Len(simplex) : simplex[i] = p0)
        /\ ~(pc = "fim" /\ ret.kind = "return" /\ ret.iters < max_iter
                /\ ret.ponto = p0)

\* C9: in a non-terminal iteration the simplex after the iteration is the
\* sorted simplex s of that iteration with exactly one update applied,
\* chosen from f(reflected) against the best, second-worst and worst
\* values of s: expansion branch, reflection, contraction (each writes
\* index N only) or shrink (index 0 kept, point i becomes
\* best + 0.5 * (point_i - best)).
C9_UmaAtualizacao ==
    [][(pc = "laco" /\ pc' = "laco" /\ Len(historico') = Len(historico) + 1) =>
          LET s == historico'[Len(historico')]
              n == Len(s) - 1
              c == [j \in 1..n |->
                      (IF n = 1 THEN s[1][j] ELSE s[1][j] + s[2][j]) \div n]
              r == [j \in 1..n |-> c[j] + (c[j] - s[n + 1][j])]
              e == [j \in 1..n |-> c[j] + 2 * (r[j] - c[j])]
              k == [j \in 1..n |-> c[j] + (s[n + 1][j] - c[j]) \div 2]
              esperado ==
                 IF F(f, r) < F(f, s[1])
                 THEN [s EXCEPT ![n + 1] = IF F(f, e) < F(f, r) THEN e ELSE r]
                 ELSE IF F(f, r) < F(f, s[n])
                 THEN [s EXCEPT ![n + 1] = r]
                 ELSE IF F(f, k) < F(f, s[n + 1])
                 THEN [s EXCEPT ![n + 1] = k]
                 ELSE [i \in 1..n + 1 |->
                         IF i = 1 THEN s[1]
                         ELSE [j \in 1..n |->
                                 s[1][j] + (s[i][j] - s[1][j]) \div 2]]
          IN  simplex' = esperado]_vars

\* A run in dimension 2 whose last iteration took the reflection branch:
\* only the reflected point was evaluated, it lies between the best and the
\* second-worst value, and it replaced the worst point only.
C9_Testemunha ==
    /\ pc = "laco"
    /\ Len(p0) = 2
    /\ Len(historico) >= 1
    /\ LET s == historico[Len(historico)]
           a == candidatos[Len(candidatos)]
       IN  /\ Len(a) = 1
           /\ F(f, a[1]) >= F(f, s[1])
           /\ F(f, a[1]) < F(f, s[2])
           /\ F(f, s[2]) < F(f, s[3])
           /\ simplex = << s[1], s[2], a[1] >>

\* C10: every record appended to the history is a permutation of the
\* simplex held at the start of that iteration, sorted ascending by
\* objective value, and no later step of the run changes a record already
\* in the history.
C10_RegistroOrdenadoImutavel ==
    [][pc = "laco" =>
          /\ Len(historico') \in {Len(historico), Len(historico) + 1}
          /\ SubSeq(historico', 1, Len(historico)) = historico
          /\ Len(historico') = Len(historico) + 1 =>
                LET reg == historico'[Len(historico')]
                    m == Len(simplex)
                IN  /\ Len(reg) = m
                    /\ \E o \in [1..m -> 1..m] :
                          /\ \A i, j \in 1..m : i # j => o[i] # o[j]
                          /\ \A i \in 1..m : reg[i] = simplex[o[i]]
                    /\ \A i \in 1..m - 1 : F(f, reg[i]) <= F(f, reg[i + 1])]_vars

\* A run with two records where argsort reordered the first simplex and the
\* update of the second iteration wrote into the simplex after its record
\* was taken.
C10_Testemunha ==
    /\ Len(historico) >= 2
    /\ historico[1] # InicializarSimplex(p0, passo).simplex
    /\ historico[2] # historico[1]
    /\ historico[Len(historico)] # simplex

====
